---------------------------- MODULE Spec2Model ----------------------------
(***************************************************************************)
(* A model of the contact book of src/main.py: the validated fields        *)
(* (Phone, Birthday), Record, AddressBook and the add_contact,             *)
(* delete_contact and change_phone commands.                               *)
(*                                                                         *)
(* Python objects have identity.  Phone objects live in the heap `pval`    *)
(* (address of the object -> stored value) and Record objects in the heap  *)
(* `recs`; a record's phone list is a sequence of addresses, so that two   *)
(* list slots holding the same Phone object (AddressBook.add_record        *)
(* extends a list with the other record's Phone objects, it does not copy  *)
(* them) are distinguishable from two Phone objects with equal values.     *)
(* The address of a new object is the allocator's choice among the         *)
(* addresses no live object holds; an object no list refers to is freed    *)
(* and its address can be given out again.                                 *)
(*                                                                         *)
(* A Python str is a sequence of characters (one-character strings; a      *)
(* non-ASCII character is named by its code point, "U+00B2").  A phone     *)
(* value, which may be None, is tagged: Str(s) or None; a name is the      *)
(* bare sequence of its characters.                                        *)
(***************************************************************************)
EXTENDS Integers, Sequences, FiniteSets, TLC

\* Bounds of the model (not program constants).
MaxRecords == 2
MaxPhones == 2
MaxPhoneList == 2
TicksPerDay == 2

-----------------------------------------------------------------------------
\* Python values and strings

None == [t |-> "none", s |-> <<>>]

Str(s) == [t |-> "str", s |-> s]

\* str(v) for v a str or None
PyStr(v) == IF v.t = "none" THEN <<"N", "o", "n", "e">> ELSE v.s

UpperChars == <<"A", "B", "C", "D", "E", "F", "G", "H", "I", "J", "K", "L", "M", "N", "O", "P", "Q", "R", "S", "T", "U", "V", "W", "X", "Y", "Z">>

LowerChars == <<"a", "b", "c", "d", "e", "f", "g", "h", "i", "j", "k", "l", "m", "n", "o", "p", "q", "r", "s", "t", "u", "v", "w", "x", "y", "z">>

\* str.lower() of one character: the ASCII letters (no other cased character
\* occurs in the inputs below)
LowerTable ==
    [c \in {UpperChars[i] : i \in 1..Len(UpperChars)} |->
        LowerChars[CHOOSE i \in 1..Len(UpperChars) : UpperChars[i] = c]]

LowerChar(c) == IF c \in DOMAIN LowerTable THEN LowerTable[c] ELSE c

\* str.lower()
Lower(s) == [i \in 1..Len(s) |-> LowerChar(s[i])]

AsciiDigits == {"0", "1", "2", "3", "4", "5", "6", "7", "8", "9"}

\* Characters for which str.isdigit() is true: the ASCII digits, the other
\* decimal digits of Unicode (U+0663 ARABIC-INDIC DIGIT THREE) and the
\* characters that are digits without being decimal (U+00B2 SUPERSCRIPT TWO).
IsDigitChar(c) == c \in AsciiDigits \cup {"U+0663", "U+00B2"}

\* str.isdigit(): false of the empty string
IsDigit(s) == Len(s) > 0 /\ \A i \in 1..Len(s) : IsDigitChar(s[i])

\* Join(<<s1, .., sn>>, sep) is sep.join([s1, .., sn])
RECURSIVE Join(_, _)
Join(ss, sep) ==
    IF ss = <<>> THEN <<>>
    ELSE IF Len(ss) = 1 THEN ss[1]
    ELSE ss[1] \o sep \o Join(Tail(ss), sep)

\* The decimal digits of n >= 0, padded with zeros to at least w characters
\* (w = 2 for strftime's %m and %d; w = 1 pads nothing).
DigitOf(k) == <<"0", "1", "2", "3", "4", "5", "6", "7", "8", "9">>[k + 1]

RECURSIVE Pad(_, _)
Pad(n, w) ==
    IF w <= 1 /\ n < 10 THEN <<DigitOf(n)>>
    ELSE Pad(n \div 10, w - 1) \o <<DigitOf(n % 10)>>

HexDigitOf(k) == <<"0", "1", "2", "3", "4", "5", "6", "7", "8", "9", "a", "b", "c", "d", "e", "f">>[k + 1]

\* The hexadecimal digits of n >= 0 ('%x')
RECURSIVE Hex(_)
Hex(n) ==
    IF n < 16 THEN <<HexDigitOf(n)>>
    ELSE Hex(n \div 16) \o <<HexDigitOf(n % 16)>>

-----------------------------------------------------------------------------
\* Messages and exceptions

\* The text of a message: a string literal, or an f-string with the values
\* that fill its fields, in order
Text(template, args) == [template |-> template, args |-> args]


NoExc == [type |-> "", msg |-> Text("", <<>>)]

ValueError(msg) == [type |-> "ValueError", msg |-> msg]

IndexError(msg) == [type |-> "IndexError", msg |-> msg]

KeyError(msg) == [type |-> "KeyError", msg |-> msg]

MsgInvalidPhone == Text("Invalid phone number format", <<>>)

MsgInvalidBirthday == Text("Invalid birthday format. Please use YYYY-MM-DD", <<>>)

MsgNoPhone == Text("Phone number does not exist in the record", <<>>)

MsgDayOutOfRange == Text("day is out of range for month", <<>>)

MsgYearOutOfRange(y) == Text("year {y} is out of range", <<Pad(y, 1)>>)

\* str(KeyError(key)): the repr of the key
MsgKey(key) == Text("{key!r}", <<key>>)

MsgIndex == Text("list index out of range", <<>>)

MsgContactNotFound(name) == Text("Contact {name} not found", <<name>>)

-----------------------------------------------------------------------------
\* Phone

\* Phone.validate_phone: TRUE when it raises
PhoneInvalid(value) ==
    value # None /\ (value.t # "str" \/ ~(Len(value.s) = 10 /\ IsDigit(value.s)))

\* Phone(value): Field.__init__ through the Phone.value setter.  The result
\* is the exception raised, or the value the new object stores.
PhoneInit(value) ==
    IF PhoneInvalid(value)
    THEN [exc |-> ValueError(MsgInvalidPhone), value |-> None]
    ELSE [exc |-> NoExc, value |-> value]

\* str(p) for the Phone object at address p: Phone and Field define no
\* __str__, so it is object's: the class name and the address in hexadecimal.
PhoneStr(p) == <<"<", "_", "_", "m", "a", "i", "n", "_", "_", ".", "P", "h", "o", "n", "e", " ", "o", "b", "j", "e", "c", "t", " ", "a", "t", " ", "0", "x">> \o Hex(p) \o <<">">>

\* The heap after a new Phone object holding value is allocated at address p
Store(hp, p, value) == [a \in DOMAIN hp \cup {p} |-> IF a = p THEN value ELSE hp[a]]

-----------------------------------------------------------------------------
\* Dates (datetime)

IsLeap(y) == (y % 4 = 0 /\ y % 100 # 0) \/ y % 400 = 0

DaysInMonth(y, m) ==
    IF m = 2 THEN (IF IsLeap(y) THEN 29 ELSE 28)
    ELSE IF m \in {4, 6, 9, 11} THEN 30 ELSE 31

\* datetime(y, m, d) raises ValueError unless this holds
ValidDate(y, m, d) ==
    /\ y \in 1..9999
    /\ m \in 1..12
    /\ d \in 1..DaysInMonth(y, m)

RECURSIVE DaysBeforeMonth(_, _)
DaysBeforeMonth(y, m) ==
    IF m = 1 THEN 0 ELSE DaysBeforeMonth(y, m - 1) + DaysInMonth(y, m - 1)

\* date.toordinal(): 1 for 0001-01-01
Ordinal(y, m, d) ==
    365 * (y - 1) + ((y - 1) \div 4) - ((y - 1) \div 100) + ((y - 1) \div 400)
        + DaysBeforeMonth(y, m) + d

\* A datetime: a date and the time of day, in ticks since midnight.  One
\* tick stands for 1/TicksPerDay of a day.
DateTime(y, m, d, tick) == [y |-> y, m |-> m, d |-> d, tick |-> tick]

\* The position of a datetime on the time line, in ticks
Ticks(dt) == Ordinal(dt.y, dt.m, dt.d) * TicksPerDay + dt.tick

\* (a - b).days for datetimes a, b: the floor of the difference in days
DeltaDays(a, b) ==
    LET diff == Ticks(a) - Ticks(b)
    IN  IF diff >= 0 THEN diff \div TicksPerDay
        ELSE -((-diff + TicksPerDay - 1) \div TicksPerDay)

-----------------------------------------------------------------------------
\* Birthday

\* The text given as a birthday, not empty.  fmt says whether the text has
\* the shape of '%Y-%m-%d'; y, m, d are the numbers its three fields spell.
BirthdayText(fmt, y, m, d) ==
    [t |-> "str", empty |-> FALSE, fmt |-> fmt, y |-> y, m |-> m, d |-> d]

\* The empty string given as a birthday
EmptyBirthdayText ==
    [t |-> "str", empty |-> TRUE, fmt |-> FALSE, y |-> 0, m |-> 0, d |-> 0]

\* None given as a birthday
NoBirthdayText ==
    [t |-> "none", empty |-> FALSE, fmt |-> FALSE, y |-> 0, m |-> 0, d |-> 0]

\* bool(birthday): None and the empty string are false
Truthy(birthday) == birthday.t # "none" /\ ~birthday.empty

\* The birthday attribute of a Record: None, or a Birthday holding a date
NoBirthday == [t |-> "none", y |-> 0, m |-> 0, d |-> 0]

\* datetime.strptime(value, '%Y-%m-%d') raises ValueError
StrptimeFails(value) == ~value.fmt \/ ~ValidDate(value.y, value.m, value.d)

\* Birthday(value) for a text value: validate_birthday, then the setter's
\* strptime
BirthdayInit(value) ==
    IF StrptimeFails(value)
    THEN [exc |-> ValueError(MsgInvalidBirthday), birthday |-> NoBirthday]
    ELSE [exc |-> NoExc,
          birthday |-> [t |-> "date", y |-> value.y, m |-> value.m, d |-> value.d]]

\* Birthday.__str__: strftime('%Y-%m-%d').  The C library's %Y does not pad
\* the year: the year 999 is written "999".
BirthdayStr(b) == Pad(b.y, 1) \o <<"-">> \o Pad(b.m, 2) \o <<"-">> \o Pad(b.d, 2)

-----------------------------------------------------------------------------
\* Record.  hp is the heap of Phone objects, rec the record's attributes.

\* Record(name, birthday)
RecordInit(name, birthday) ==
    IF Truthy(birthday)
    THEN LET b == BirthdayInit(birthday)
         IN  [exc |-> b.exc,
              rec |-> [name |-> name, birthday |-> b.birthday, phones |-> <<>>]]
    ELSE [exc |-> NoExc,
          rec |-> [name |-> name, birthday |-> NoBirthday, phones |-> <<>>]]

\* Record.add_phone, where addr is the address of the new Phone object
RecordAddPhone(hp, rec, phone, addr) ==
    LET ph == PhoneInit(phone)
    IN  IF ph.exc # NoExc
        THEN [exc |-> ph.exc, pval |-> hp, rec |-> rec]
        ELSE [exc |-> NoExc,
              pval |-> Store(hp, addr, ph.value),
              rec |-> [rec EXCEPT !.phones = Append(@, addr)]]

\* Record.remove_phone
RecordRemovePhone(rec, phone) ==
    [rec EXCEPT !.phones = SelectSeq(@, LAMBDA p : Str(PhoneStr(p)) # phone)]

\* Record.find_phone
RecordFindPhone(hp, rec, phone) ==
    LET found == SelectSeq(rec.phones, LAMBDA p : Str(PhoneStr(p)) = phone)
        found_phones == [i \in 1..Len(found) |-> hp[found[i]]]
    IN  IF found_phones # <<>> THEN found_phones[1] ELSE None

\* Record.edit_phone
RecordEditPhone(hp, rec, old_phone, new_phone) ==
    LET hits == {i \in 1..Len(rec.phones) : Str(PyStr(hp[rec.phones[i]])) = old_phone}
    IN  IF hits = {}
        THEN [exc |-> ValueError(MsgNoPhone), pval |-> hp]
        ELSE LET first == CHOOSE i \in hits : \A j \in hits : i <= j
             IN  IF PhoneInvalid(new_phone)
                 THEN [exc |-> ValueError(MsgInvalidPhone), pval |-> hp]
                 ELSE [exc |-> NoExc,
                       pval |-> [hp EXCEPT ![rec.phones[first]] = new_phone]]

\* Record.get_phones
RecordGetPhones(hp, rec) == [i \in 1..Len(rec.phones) |-> PyStr(hp[rec.phones[i]])]

\* The exception datetime(y, m, d) raises, for a month m in 1..12: the year
\* is checked before the day
DateTimeExc(y, m, d) ==
    IF y \notin 1..9999 THEN ValueError(MsgYearOutOfRange(y))
    ELSE IF d \notin 1..DaysInMonth(y, m) THEN ValueError(MsgDayOutOfRange)
    ELSE NoExc

\* Record.days_to_birthday, for the value today of datetime.now().  The
\* result is None, the number of days, or the ValueError of datetime() for
\* a year out of range or a month and day the year does not have.
RecordDaysToBirthday(rec, today) ==
    IF rec.birthday.t = "none"
    THEN [exc |-> NoExc, none |-> TRUE, days |-> 0]
    ELSE IF ~ValidDate(today.y, rec.birthday.m, rec.birthday.d)
    THEN [exc |-> DateTimeExc(today.y, rec.birthday.m, rec.birthday.d),
          none |-> FALSE, days |-> 0]
    ELSE LET this_year == DateTime(today.y, rec.birthday.m, rec.birthday.d, 0)
         IN  IF Ticks(today) > Ticks(this_year)
             THEN IF ~ValidDate(today.y + 1, rec.birthday.m, rec.birthday.d)
                  THEN [exc |-> DateTimeExc(today.y + 1, rec.birthday.m, rec.birthday.d),
                        none |-> FALSE, days |-> 0]
                  ELSE [exc |-> NoExc, none |-> FALSE,
                        days |-> DeltaDays(DateTime(today.y + 1, rec.birthday.m,
                                                    rec.birthday.d, 0), today)]
             ELSE [exc |-> NoExc, none |-> FALSE, days |-> DeltaDays(this_year, today)]

\* Record.__str__
RecordStr(hp, rec) ==
    LET phones_str == Join(RecordGetPhones(hp, rec), <<",", " ">>)
        birthday_str == IF rec.birthday.t # "none"
                        THEN <<",", " ", "b", "i", "r", "t", "h", "d", "a", "y", ":", " ">> \o BirthdayStr(rec.birthday)
                        ELSE <<>>
    IN  <<"C", "o", "n", "t", "a", "c", "t", " ", "n", "a", "m", "e", ":", " ">> \o rec.name \o <<",", " ", "p", "h", "o", "n", "e", "s", ":", " ">> \o phones_str \o birthday_str

-----------------------------------------------------------------------------
\* AddressBook.  rs is the heap of Record objects, d the dict self.data: a
\* sequence of (key, record id) entries in insertion order.

\* self.data[key] = r
DictSet(d, key, r) ==
    IF \E i \in 1..Len(d) : d[i].key = key
    THEN [i \in 1..Len(d) |-> IF d[i].key = key THEN [key |-> key, rec |-> r] ELSE d[i]]
    ELSE Append(d, [key |-> key, rec |-> r])

\* del self.data[key]: a KeyError when the dict has no such key
DictDel(d, key) ==
    IF \E i \in 1..Len(d) : d[i].key = key
    THEN [exc |-> NoExc, data |-> SelectSeq(d, LAMBDA e : e.key # key)]
    ELSE [exc |-> KeyError(MsgKey(key)), data |-> d]

\* list(self.data.values())
Values(d) == [i \in 1..Len(d) |-> d[i].rec]

\* next((record for record in self.data.values()
\*       if record.name.value.lower() == lowered), None); 0 stands for None
FirstByLower(rs, d, lowered) ==
    LET hits == {i \in 1..Len(d) : Lower(rs[d[i].rec].name) = lowered}
    IN  IF hits = {} THEN 0
        ELSE d[CHOOSE i \in hits : \A j \in hits : i <= j].rec

\* add_record as it would be if it compared the names without lower()
BookAddRecordExact(rs, d, r) ==
    LET hits == {i \in 1..Len(d) : rs[d[i].rec].name = rs[r].name}
    IN  IF hits # {}
        THEN LET existing_record == d[CHOOSE i \in hits : \A j \in hits : i <= j].rec
             IN  [recs |-> [rs EXCEPT ![existing_record].phones = @ \o rs[r].phones],
                  data |-> d]
        ELSE [recs |-> rs, data |-> DictSet(d, rs[r].name, r)]

\* AddressBook.add_record
BookAddRecord(rs, d, r) ==
    LET existing_record == FirstByLower(rs, d, Lower(rs[r].name))
    IN  IF existing_record # 0
        THEN [recs |-> [rs EXCEPT ![existing_record].phones = @ \o rs[r].phones],
              data |-> d]
        ELSE [recs |-> rs, data |-> DictSet(d, rs[r].name, r)]

\* AddressBook.find
BookFind(rs, d, name) == FirstByLower(rs, d, Lower(name))

\* AddressBook.delete
BookDelete(rs, d, name) ==
    LET record == FirstByLower(rs, d, Lower(name))
    IN  IF record # 0 THEN DictDel(d, rs[record].name) ELSE [exc |-> NoExc, data |-> d]

\* AddressBook.change_phone
BookChangePhone(rs, hp, d, name, old_phone, new_phone) ==
    LET record == BookFind(rs, d, Lower(name))
    IN  IF record # 0
        THEN RecordEditPhone(hp, rs[record], old_phone, new_phone)
        ELSE [exc |-> ValueError(MsgContactNotFound(name)), pval |-> hp]

\* s[start:end] of Python, for a list s and integers start, end
Slice(s, start, end) ==
    LET Clamp(i) == IF i < 0 THEN (IF Len(s) + i < 0 THEN 0 ELSE Len(s) + i)
                    ELSE (IF i > Len(s) THEN Len(s) ELSE i)
        lo == Clamp(start)
        hi == Clamp(end)
    IN  IF lo < hi THEN SubSeq(s, lo + 1, hi) ELSE <<>>

\* AddressBook.get_page
BookGetPage(d, ps, page_number) ==
    LET start_index == (page_number - 1) * ps
        end_index == start_index + ps
    IN  Slice(Values(d), start_index, end_index)

\* AddressBook.record_iterator: the strings a new iterator yields, in order
RecordIterator(rs, hp, d) == [i \in 1..Len(d) |-> RecordStr(hp, rs[d[i].rec])]

\* The loop of AddressBook.get_n_records with k iterations left: each
\* iteration takes next() of a new record_iterator; a StopIteration ends it.
RECURSIVE GetNLoop(_, _, _, _, _)
GetNLoop(rs, hp, d, k, records) ==
    IF k <= 0 THEN records
    ELSE LET it == RecordIterator(rs, hp, d)
         IN  IF it = <<>> THEN records
             ELSE GetNLoop(rs, hp, d, k - 1, Append(records, Head(it)))

\* AddressBook.get_n_records
BookGetNRecords(rs, hp, d, n) == GetNLoop(rs, hp, d, n, <<>>)

-----------------------------------------------------------------------------
\* The commands.  input_error turns a KeyError, ValueError or IndexError e
\* into the string f"Error: {str(e)}"; ret is what the command returns
\* when nothing is raised.

InputError(exc, ret) ==
    IF exc.type \in {"KeyError", "ValueError", "IndexError"}
    THEN Text("Error: {str(e)}", <<exc.msg>>)
    ELSE ret

\* add_contact, where addr is the address of the Phone object it makes
CmdAddContact(rs, hp, d, name, phone, birthday, addr) ==
    LET contact == BookFind(rs, d, name)
        ok == Text("Contact {name} added with phone {phone}", <<name, PyStr(phone)>>)
    IN  IF contact # 0
        THEN LET a == RecordAddPhone(hp, rs[contact], phone, addr)
             IN  [ret |-> InputError(a.exc, ok),
                  recs |-> [rs EXCEPT ![contact] = a.rec], pval |-> a.pval, data |-> d]
        ELSE LET n == RecordInit(name, birthday)
                 a == RecordAddPhone(hp, n.rec, phone, addr)
                 b == BookAddRecord(Append(rs, a.rec), d, Len(rs) + 1)
             IN  IF n.exc # NoExc
                 THEN [ret |-> InputError(n.exc, ok), recs |-> rs, pval |-> hp, data |-> d]
                 ELSE IF a.exc # NoExc
                 THEN [ret |-> InputError(a.exc, ok), recs |-> rs, pval |-> hp, data |-> d]
                 ELSE [ret |-> ok, recs |-> b.recs, pval |-> a.pval, data |-> b.data]

\* delete_contact, for the list command
CmdDeleteContact(rs, d, command) ==
    IF Len(command) < 2
    THEN [ret |-> InputError(IndexError(MsgIndex), Text("", <<>>)), data |-> d]
    ELSE LET name == command[2]
             b == BookDelete(rs, d, name)
         IN  [ret |-> InputError(b.exc, Text("Contact {name} deleted", <<name>>)),
              data |-> b.data]

\* change_phone, the command
CmdChangePhone(rs, hp, d, name, new_phone) ==
    LET contact == BookFind(rs, d, name)
        ok == Text("Phone number for {name} changed to {new_phone}",
                   <<name, PyStr(new_phone)>>)
    IN  IF contact # 0
        THEN IF rs[contact].phones = <<>>
             THEN [ret |-> InputError(IndexError(MsgIndex), ok), pval |-> hp]
             ELSE LET e == RecordEditPhone(hp, rs[contact], hp[rs[contact].phones[1]],
                                           new_phone)
                  IN  [ret |-> InputError(e.exc, ok), pval |-> e.pval]
        ELSE [ret |-> InputError(ValueError(MsgContactNotFound(name)), ok), pval |-> hp]

-----------------------------------------------------------------------------
\* The state: the heap of Record objects (recs[r] is the record with id r),
\* the heap of Phone objects (pval[p] is the value the Phone at p stores), the
\* AddressBook `contacts` (its dict and its page size), and the call whose
\* result the caller holds (what was called, the exception it raised, what
\* it returned).  The arguments of the call are not kept: a property about
\* them names the action with its arguments.

VARIABLES recs, pval, data, page_size, last

vars == <<recs, pval, data, page_size, last>>

Call(op, exc, ret) == [op |-> op, exc |-> exc, ret |-> ret]

\* The caller holds no result: nothing was called yet, or the result of the
\* last call was used (main prints it) and the next call can be made
Idle == Call("", NoExc, <<>>)

\* One call at a time: a call is made when the result of the one before it
\* is used
Ready == last = Idle

\* The addresses of the heap of Phone objects
Addresses == 1..MaxPhones

\* The model's bounds on the two heaps and on the length of a phone list
Fits(rs, hp) ==
    /\ Len(rs) <= MaxRecords
    /\ DOMAIN hp \subseteq Addresses
    /\ \A r \in 1..Len(rs) : Len(rs[r].phones) <= MaxPhoneList

\* The Phone objects some phone list refers to
Live(rs, hp) ==
    {p \in DOMAIN hp : \E r \in 1..Len(rs) : \E i \in 1..Len(rs[r].phones) :
                            rs[r].phones[i] = p}

\* Reference counting: a Phone object no list refers to any more is freed
Collect(rs, hp) == [p \in Live(rs, hp) |-> hp[p]]

\* r = Record(name, birthday)
NewRecord(name, birthday) ==
    LET n == RecordInit(name, birthday)
    IN  /\ Len(recs) < MaxRecords
        /\ recs' = IF n.exc = NoExc THEN Append(recs, n.rec) ELSE recs
        /\ last' = Call("Record", n.exc, <<>>)
        /\ UNCHANGED <<pval, data, page_size>>

\* r.add_phone(phone).  The new Phone object is at any address no live
\* object holds; the address of an object that does not outlive the call
\* makes no difference.
AddPhone(r, phone) ==
    \E addr \in Addresses :
        LET a == RecordAddPhone(pval, recs[r], phone, addr)
        IN  /\ addr \notin DOMAIN pval \/ a.exc # NoExc
            /\ Fits([recs EXCEPT ![r] = a.rec], a.pval)
            /\ recs' = [recs EXCEPT ![r] = a.rec]
            /\ pval' = a.pval
            /\ last' = Call("add_phone", a.exc, <<>>)
            /\ UNCHANGED <<data, page_size>>

\* r.remove_phone(phone): the Phone objects the new list leaves out are freed
RemovePhone(r, phone) ==
    /\ recs' = [recs EXCEPT ![r] = RecordRemovePhone(recs[r], phone)]
    /\ pval' = Collect(recs', pval)
    /\ last' = Call("remove_phone", NoExc, <<>>)
    /\ UNCHANGED <<data, page_size>>

\* r.find_phone(phone)
FindPhone(r, phone) ==
    /\ last' = Call("find_phone", NoExc, RecordFindPhone(pval, recs[r], phone))
    /\ UNCHANGED <<recs, pval, data, page_size>>

\* r.edit_phone(old_phone, new_phone)
EditPhone(r, old_phone, new_phone) ==
    LET e == RecordEditPhone(pval, recs[r], old_phone, new_phone)
    IN  /\ pval' = e.pval
        /\ last' = Call("edit_phone", e.exc, <<>>)
        /\ UNCHANGED <<recs, data, page_size>>

\* r.days_to_birthday(), called when datetime.now() is today
DaysToBirthday(r, today) ==
    LET b == RecordDaysToBirthday(recs[r], today)
    IN  /\ last' = Call("days_to_birthday", b.exc,
                        IF b.exc # NoExc \/ b.none THEN <<>> ELSE <<b.days>>)
        /\ UNCHANGED <<recs, pval, data, page_size>>

\* contacts.add_record(r)
AddRecord(r) ==
    LET b == BookAddRecord(recs, data, r)
    IN  /\ Fits(b.recs, pval)
        /\ recs' = b.recs
        /\ data' = b.data
        /\ last' = Call("add_record", NoExc, <<>>)
        /\ UNCHANGED <<pval, page_size>>

\* contacts.delete(name)
Delete(name) ==
    LET b == BookDelete(recs, data, name)
    IN  /\ data' = b.data
        /\ last' = Call("delete", b.exc, <<>>)
        /\ UNCHANGED <<recs, pval, page_size>>

\* contacts.change_phone(name, old_phone, new_phone)
ChangePhone(name, old_phone, new_phone) ==
    LET e == BookChangePhone(recs, pval, data, name, old_phone, new_phone)
    IN  /\ pval' = e.pval
        /\ last' = Call("change_phone", e.exc, <<>>)
        /\ UNCHANGED <<recs, data, page_size>>

\* contacts.page_size = ps
SetPageSize(ps) ==
    /\ page_size' = ps
    /\ last' = Call("page_size", NoExc, <<>>)
    /\ UNCHANGED <<recs, pval, data>>

\* contacts.get_page(page_number)
GetPage(page_number) ==
    /\ last' = Call("get_page", NoExc, BookGetPage(data, page_size, page_number))
    /\ UNCHANGED <<recs, pval, data, page_size>>

\* contacts.get_n_records(n)
GetNRecords(n) ==
    /\ last' = Call("get_n_records", NoExc, BookGetNRecords(recs, pval, data, n))
    /\ UNCHANGED <<recs, pval, data, page_size>>

\* add_contact(name, phone, birthday).  The new Phone object is at any
\* address no live object holds; the address of an object that does not
\* outlive the call makes no difference.
AddContact(name, phone, birthday) ==
    \E addr \in Addresses :
        LET c == CmdAddContact(recs, pval, data, name, phone, birthday, addr)
        IN  /\ addr \notin DOMAIN pval \/ (c.recs = recs /\ c.pval = pval)
            /\ Fits(c.recs, c.pval)
            /\ recs' = c.recs
            /\ pval' = c.pval
            /\ data' = c.data
            /\ last' = Call("add_contact", NoExc, c.ret)
            /\ UNCHANGED page_size

\* delete_contact(command)
DeleteContact(command) ==
    LET c == CmdDeleteContact(recs, data, command)
    IN  /\ data' = c.data
        /\ last' = Call("delete_contact", NoExc, c.ret)
        /\ UNCHANGED <<recs, pval, page_size>>

\* change_phone(name, new_phone), the command
ChangePhoneCommand(name, new_phone) ==
    LET c == CmdChangePhone(recs, pval, data, name, new_phone)
    IN  /\ pval' = c.pval
        /\ last' = Call("change_phone command", NoExc, c.ret)
        /\ UNCHANGED <<recs, data, page_size>>

\* The caller is done with the result of the last call: main prints it and
\* waits for the next command
Done ==
    /\ last # Idle
    /\ last' = Idle
    /\ UNCHANGED <<recs, pval, data, page_size>>

\* r.name.value = name: the setter of Field, which Name does not override
SetName(r, name) ==
    /\ recs' = [recs EXCEPT ![r].name = name]
    /\ last' = Call("name", NoExc, <<>>)
    /\ UNCHANGED <<pval, data, page_size>>

-----------------------------------------------------------------------------
\* Inputs

Bob == <<"B", "o", "b">>

bob == <<"b", "o", "b">>

Al == <<"A", "l">>

Names == {Bob, bob, Al}

PhoneA == Str(<<"1", "2", "3", "4", "5", "6", "7", "8", "9", "0">>)

PhoneB == Str(<<"0", "9", "8", "7", "6", "5", "4", "3", "2", "1">>)

PhoneShort == Str(<<"1", "2", "3">>)

PhoneLong == Str(<<"1", "2", "3", "4", "5", "6", "7", "8", "9", "0", "1">>)

PhoneAlpha == Str(<<"1", "2", "3", "4", "5", "a", "b", "c", "d", "e">>)

PhoneArabic == Str([i \in 1..10 |-> "U+0663"])

PhoneSuper == Str([i \in 1..10 |-> "U+00B2"])

\* The phones given to the book's operations, to add, to replace and as
\* replacements: two strings of 10 decimal digits, a string that is too
\* short, and a string of 10 digit characters that are not decimal digits
Phones == {PhoneA, PhoneB, PhoneShort, PhoneSuper}

PhoneStrings ==
    {PhoneA, PhoneB, PhoneShort, PhoneLong, PhoneAlpha, PhoneArabic, PhoneSuper, Str(<<>>)}

\* What a caller can pass to remove_phone and find_phone: the strings above,
\* and the str(p) taken of a Phone object p, which the caller may keep after
\* the object is freed
PhoneTexts == PhoneStrings \cup {Str(PhoneStr(p)) : p \in Addresses}

BirthdayInputs == {NoBirthdayText, EmptyBirthdayText, BirthdayText(TRUE, 2001, 2, 29)}

Commands == {<<<<"d", "e", "l", "e", "t", "e">>>>} \cup {<<<<"d", "e", "l", "e", "t", "e">>, n>> : n \in Names}

-----------------------------------------------------------------------------
\* The contact book: records, the AddressBook and the commands

Init ==
    /\ recs = <<>>
    /\ pval = <<>>
    /\ data = <<>>
    /\ page_size = 5
    /\ last = Idle

Next ==
    \/ Ready /\ \E name \in Names, birthday \in BirthdayInputs : NewRecord(name, birthday)
    \/ Ready /\ \E r \in 1..Len(recs), phone \in Phones : AddPhone(r, phone)
    \/ Ready /\ \E r \in 1..Len(recs), old_phone \in Phones, new_phone \in Phones :
          EditPhone(r, old_phone, new_phone)
    \/ Ready /\ \E r \in 1..Len(recs) : AddRecord(r)
    \/ Ready /\ \E name \in Names : Delete(name)
    \/ Ready /\ \E name \in Names, old_phone \in Phones, new_phone \in Phones :
          ChangePhone(name, old_phone, new_phone)
    \/ Ready /\ \E name \in Names, phone \in Phones, birthday \in BirthdayInputs :
          AddContact(name, phone, birthday)
    \/ Ready /\ \E command \in Commands : DeleteContact(command)
    \/ Ready /\ \E name \in Names, new_phone \in Phones : ChangePhoneCommand(name, new_phone)
    \/ Done

Spec == Init /\ [][Next]_vars

-----------------------------------------------------------------------------
\* One record and its phones: r = Record(name), then any calls of its
\* methods, with any string as a phone

InitRecord ==
    /\ \E name \in Names : recs = <<RecordInit(name, NoBirthdayText).rec>>
    /\ pval = <<>>
    /\ data = <<>>
    /\ page_size = 5
    /\ last = Idle

NextRecord ==
    \/ Ready /\ \E phone \in PhoneStrings : AddPhone(1, phone)
    \/ Ready /\ \E phone \in PhoneTexts : RemovePhone(1, phone)
    \/ Ready /\ \E phone \in PhoneTexts : FindPhone(1, phone)
    \/ Ready /\ \E old_phone, new_phone \in PhoneStrings : EditPhone(1, old_phone, new_phone)
    \/ Done

SpecRecord == InitRecord /\ [][NextRecord]_vars

-----------------------------------------------------------------------------
\* Listing: a book of k contacts, read by get_page and get_n_records

MaxListing == 7

MaxPageSize == 5

MaxPage == 4

ListedName(i) == <<"n", DigitOf(i)>>

\* The birthday given for the k-th contact: every second contact has one,
\* in the years 999, 1000, 1001; the others are given None or the empty
\* string
ListedBirthday(k) ==
    IF k % 2 = 0 THEN BirthdayText(TRUE, 998 + k \div 2, 2, 20 + k)
    ELSE IF k % 4 = 1 THEN NoBirthdayText
    ELSE EmptyBirthdayText

\* The state after add_contact(ListedName(i), "1234567890", birthday) for
\* i = 1..k, the i-th Phone object at address i
RECURSIVE Listed(_)
Listed(k) ==
    IF k = 0 THEN [recs |-> <<>>, pval |-> <<>>, data |-> <<>>]
    ELSE LET s == Listed(k - 1)
         IN  CmdAddContact(s.recs, s.pval, s.data, ListedName(k), PhoneA,
                           ListedBirthday(k), k)

InitQuery ==
    /\ \E k \in 0..MaxListing :
          /\ recs = Listed(k).recs
          /\ pval = Listed(k).pval
          /\ data = Listed(k).data
    /\ page_size = 5
    /\ last = Idle

NextQuery ==
    \/ Ready /\ \E ps \in 1..MaxPageSize : SetPageSize(ps)
    \/ Ready /\ \E page_number \in -MaxPage..MaxPage : GetPage(page_number)
    \/ Ready /\ \E n \in -1..(MaxListing + 1) : GetNRecords(n)
    \/ Done

SpecQuery == InitQuery /\ [][NextQuery]_vars

-----------------------------------------------------------------------------
\* Birthdays: r = Record(name, birthday), then days_to_birthday() at any time

Birthdays ==
    {NoBirthdayText, EmptyBirthdayText, BirthdayText(TRUE, 2000, 2, 29),
     BirthdayText(TRUE, 1990, 3, 1), BirthdayText(TRUE, 1985, 12, 31),
     BirthdayText(TRUE, 1999, 1, 1)}

\* The values of datetime.now()
Todays ==
    {DateTime(y, m, d, tick) : y \in {2023, 2024, 9999}, m \in {1, 2, 3, 12},
                               d \in {1, 2, 15, 27, 28, 29, 30, 31}, tick \in 0..(TicksPerDay - 1)}

InitBirthday ==
    /\ \E birthday \in Birthdays : recs = <<RecordInit(Bob, birthday).rec>>
    /\ pval = <<>>
    /\ data = <<>>
    /\ page_size = 5
    /\ last = Idle

NextBirthday ==
    \/ Ready /\ \E today \in {t \in Todays : ValidDate(t.y, t.m, t.d)} : DaysToBirthday(1, today)
    \/ Done

SpecBirthday == InitBirthday /\ [][NextBirthday]_vars

-----------------------------------------------------------------------------
\* Renaming: a book of two contacts whose records a caller renames through
\* the value setter, and deletes

Renamed ==
    LET s == CmdAddContact(<<>>, <<>>, <<>>, Bob, PhoneA, NoBirthdayText, 1)
    IN  CmdAddContact(s.recs, s.pval, s.data, Al, PhoneB, NoBirthdayText, 2)

InitRename ==
    /\ recs = Renamed.recs
    /\ pval = Renamed.pval
    /\ data = Renamed.data
    /\ page_size = 5
    /\ last = Idle

NextRename ==
    \/ Ready /\ \E r \in 1..Len(recs), name \in Names : SetName(r, name)
    \/ Ready /\ \E name \in Names : Delete(name)
    \/ Ready /\ \E command \in Commands : DeleteContact(command)
    \/ Done

SpecRename == InitRename /\ [][NextRename]_vars

-----------------------------------------------------------------------------
\* Properties.  They are stated over the values a caller sees, not over the
\* operators above.

\* The values of the phones of record r, in list order
PhoneValues(r) == [i \in 1..Len(recs[r].phones) |-> pval[recs[r].phones[i]]]

\* The records of the collection, in insertion order
Listing == [i \in 1..Len(data) |-> data[i].rec]

InBook(r) == \E i \in 1..Len(data) : data[i].rec = r

SameName(a, b) == Lower(a) = Lower(b)

\* The record of the collection with this name, in any letter case; 0 if none
Entry(name) ==
    IF \E i \in 1..Len(data) : SameName(recs[data[i].rec].name, name)
    THEN data[CHOOSE i \in 1..Len(data) : SameName(recs[data[i].rec].name, name)].rec
    ELSE 0

\* A decimal digit: str.isdecimal() of the character
IsDecimalChar(c) == c \in AsciiDigits \cup {"U+0663"}

\* A string of exactly 10 decimal digits
TenDigits(v) ==
    v.t = "str" /\ Len(v.s) = 10 /\ \A i \in 1..Len(v.s) : IsDecimalChar(v.s[i])

\* The least index of s whose element is v; 0 if none
FirstIndex(s, v) ==
    IF \E i \in 1..Len(s) : s[i] = v
    THEN CHOOSE i \in 1..Len(s) : s[i] = v /\ \A j \in 1..(i - 1) : s[j] # v
    ELSE 0

IsErrorText(ret) == ret.template = "Error: {str(e)}"

\* ---- C1 ----

NoDuplicateNames ==
    \A i, j \in 1..Len(data) :
        SameName(recs[data[i].rec].name, recs[data[j].rec].name) => i = j

MergeOnAdd ==
    last'.op = "add_record" =>
        \A r \in 1..Len(recs) :
            LET e == Entry(recs[r].name)
            IN  e # 0 /\ AddRecord(r) =>
                    /\ Len(data') = Len(data)
                    /\ recs'[e].phones = recs[e].phones \o recs[r].phones

\* C1: the collection never holds two records whose names are equal up to
\* letter case, and add_record of a record whose name matches an existing
\* record's name in any letter case leaves the number of entries unchanged
\* and appends the new record's phones, in order, to the existing record's
\* phone list.
C1_OneRecordPerName == []NoDuplicateNames /\ [][MergeOnAdd]_vars

\* A state right after add_record merged a record spelled differently into
\* the collection's only record, whose list now ends with the merged phones
C1_Witness ==
    /\ last.op = "add_record"
    /\ Len(data) = 1
    /\ \E r \in 1..Len(recs) :
          /\ r # data[1].rec
          /\ recs[r].name # recs[data[1].rec].name
          /\ SameName(recs[r].name, recs[data[1].rec].name)
          /\ recs[r].phones # <<>>
          /\ \E k \in 1..Len(recs[data[1].rec].phones) :
                recs[data[1].rec].phones =
                    SubSeq(recs[data[1].rec].phones, 1, k) \o recs[r].phones

\* ---- C2 ----

StoredPhonesAreTenDigits == \A p \in DOMAIN pval : TenDigits(pval[p])

PhoneAcceptsExactlyTenDigits ==
    last'.op = "add_phone" =>
        \A phone \in PhoneStrings :
            AddPhone(1, phone) =>
                /\ (last'.exc.type = "") <=> TenDigits(phone)
                /\ ~TenDigits(phone) => last'.exc.type = "ValueError"

\* C2: constructing a Phone from a string succeeds exactly when the string
\* has 10 characters, all decimal digits, and fails with a validation error
\* otherwise; so every phone stored in a record is a string of 10 decimal
\* digits.
C2_PhoneIsTenDigits == []StoredPhonesAreTenDigits /\ [][PhoneAcceptsExactlyTenDigits]_vars

\* ---- C3 ----

Unchanged == recs' = recs /\ pval' = pval /\ data' = data

FailedEditChangesNothing ==
    last'.op = "edit_phone" =>
        \A r \in 1..Len(recs), old_phone \in Phones, new_phone \in Phones :
            /\ FirstIndex(PhoneValues(r), old_phone) = 0 \/ ~TenDigits(new_phone)
            /\ EditPhone(r, old_phone, new_phone)
            => last'.exc.type = "ValueError" /\ Unchanged

FailedChangeChangesNothing ==
    last'.op = "change_phone" =>
        \A name \in Names, old_phone \in Phones, new_phone \in Phones :
            /\ Entry(name) = 0
            /\ ChangePhone(name, old_phone, new_phone)
            => last'.exc.type = "ValueError" /\ Unchanged

FailedAddChangesNothing ==
    last'.op = "add_contact" =>
        \A name \in Names, phone \in Phones, birthday \in BirthdayInputs :
            /\ ~TenDigits(phone)
            /\ AddContact(name, phone, birthday)
            => IsErrorText(last'.ret) /\ Unchanged

\* C3: edit_phone with an old phone the record does not hold or with an
\* invalid new phone (one that is not a string of 10 decimal digits),
\* change_phone with a name no record has, and add_contact with an invalid
\* phone each signal an error and leave the records, their phone lists and
\* the phones as they were.
C3_FailedCallsChangeNothing ==
    [][FailedEditChangesNothing /\ FailedChangeChangesNothing /\ FailedAddChangesNothing]_vars

\* What holds of the calls C3 names, whatever phones they refuse: a call
\* that raises, or returns an error text, leaves the records, their phone
\* lists and the phones as they were
ErrorsChangeNothing ==
    /\ last'.op \in {"edit_phone", "change_phone"} /\ last'.exc.type # "" => Unchanged
    /\ last'.op = "add_contact" /\ IsErrorText(last'.ret) => Unchanged

AlwaysErrorsChangeNothing == [][ErrorsChangeNothing]_vars

\* ---- C4 ----

ChangeReplacesFirstOnly ==
    last'.op = "change_phone" =>
    \A name \in Names, old_phone \in Phones, new_phone \in Phones :
        LET e == Entry(name)
        IN  /\ e # 0
            /\ FirstIndex(PhoneValues(e), old_phone) # 0
            /\ TenDigits(new_phone)
            /\ ChangePhone(name, old_phone, new_phone)
            => /\ PhoneValues(e)' =
                    [PhoneValues(e) EXCEPT ![FirstIndex(PhoneValues(e), old_phone)] = new_phone]
               /\ \A r \in 1..Len(recs) :
                     InBook(r) /\ r # e => PhoneValues(r)' = PhoneValues(r)
               /\ Listing' = Listing

\* C4: change_phone(name, old, new), for a name a record has, an old phone
\* the record holds and a valid new phone, replaces the first phone equal
\* to old by new and leaves every other phone of the record, the order of
\* its phones and all other records of the collection as they were.
C4_ChangeReplacesFirstOnly == [][ChangeReplacesFirstOnly]_vars

\* ---- C10 ----

DeleteContactReports ==
    last'.op = "delete_contact" =>
    \A command \in Commands :
        Len(command) = 2 /\ DeleteContact(command) =>
            LET name == command[2]
                e == Entry(name)
            IN  IF e # 0
                THEN /\ ~IsErrorText(last'.ret)
                     /\ \A n \in Names : SameName(n, name) => Entry(n)' = 0
                     /\ Listing' = SelectSeq(Listing, LAMBDA r : r # e)
                     /\ recs' = recs /\ pval' = pval
                ELSE /\ IsErrorText(last'.ret)
                     /\ Unchanged

\* C10: delete_contact(name) returns a success result only when a record
\* with that name, in any letter case, was present and has been removed,
\* the other records unchanged; when there is none it returns an error
\* outcome and changes nothing.
C10_DeleteContactReports == [][DeleteContactReports]_vars

\* ---- C5 ----

\* The records at indices [(p-1)*ps, p*ps) of the listing, counted from 0,
\* that exist
PageOf(listing, ps, p) ==
    LET idx == {i \in 0..(Len(listing) - 1) : (p - 1) * ps <= i /\ i < p * ps}
    IN  IF idx = {} THEN <<>>
        ELSE [k \in 1..Cardinality(idx) |-> listing[(p - 1) * ps + k]]

GetPageSlices ==
    last'.op = "get_page" =>
        \A page_number \in -MaxPage..MaxPage :
            GetPage(page_number) => last'.ret = PageOf(Listing, page_size, page_number)

\* C5: get_page(p) returns the records at indices [(p-1)*ps, p*ps) of the
\* insertion-ordered listing that exist, and the empty sequence for every
\* page number out of range: zero, negative, or beyond the last page.
C5_GetPageSlices == [][GetPageSlices]_vars

\* ---- C6 ----

Min(a, b) == IF a < b THEN a ELSE b

GetNRecordsTakesFirstN ==
    last'.op = "get_n_records" =>
        \A n \in -1..(MaxListing + 1) :
            GetNRecords(n) =>
                last'.ret = [i \in 1..Min(n, Len(data)) |-> RecordStr(pval, recs[data[i].rec])]

\* C6: get_n_records(n) returns the formatted strings of the first
\* min(n, size) records in insertion order, each record once; the empty
\* sequence when n <= 0 or the collection is empty.
C6_GetNRecordsTakesFirstN == [][GetNRecordsTakesFirstN]_vars

\* ---- C7 ----

RemovePhoneRemovesEqual ==
    last'.op = "remove_phone" =>
        \A phone \in PhoneTexts :
            RemovePhone(1, phone) =>
                PhoneValues(1)' = SelectSeq(PhoneValues(1), LAMBDA v : v # phone)

\* C7: remove_phone(raw) removes every phone whose value equals the string
\* raw and keeps the other phones in their order; when no phone equals raw
\* it changes nothing.
C7_RemovePhoneRemovesEqual == [][RemovePhoneRemovesEqual]_vars

\* ---- C8 ----

FindPhoneFindsFirst ==
    last'.op = "find_phone" =>
        \A phone \in PhoneTexts :
            FindPhone(1, phone) =>
                LET i == FirstIndex(PhoneValues(1), phone)
                IN  last'.ret = IF i # 0 THEN PhoneValues(1)[i] ELSE None

\* C8: find_phone(raw) returns the first phone of the record equal to the
\* string raw whenever the record holds one, and None only when no phone of
\* the record equals raw.
C8_FindPhoneFindsFirst == [][FindPhoneFindsFirst]_vars

\* ---- C9 ----

\* The day before the date (y, m, d)
Yesterday(y, m, d) ==
    IF d > 1 THEN [y |-> y, m |-> m, d |-> d - 1]
    ELSE IF m > 1 THEN [y |-> y, m |-> m - 1, d |-> DaysInMonth(y, m - 1)]
    ELSE [y |-> y - 1, m |-> 12, d |-> 31]

DaysToBirthdayCounts ==
    last'.op = "days_to_birthday" =>
        \A today \in Todays :
            ValidDate(today.y, today.m, today.d) /\ DaysToBirthday(1, today) =>
                LET b == recs[1].birthday
                    yd == Yesterday(today.y, today.m, today.d)
                IN  IF b.t = "none" THEN last'.exc = NoExc /\ last'.ret = <<>>
                    ELSE last'.exc = NoExc =>
                            /\ Len(last'.ret) = 1
                            /\ last'.ret[1] >= 0
                            /\ (b.m = today.m /\ b.d = today.d) => last'.ret[1] = 0
                            /\ (b.m = yd.m /\ b.d = yd.d) => last'.ret[1] \in 363..366

\* C9: days_to_birthday, for a record with a birthday, returns the number of
\* whole days to the next occurrence of the birthday's month and day on or
\* after today's date: 0 whenever that month and day are today's, at any
\* time of day, about 365 when they were yesterday's, and never a negative
\* number; for a record without a birthday it returns None.
C9_DaysToBirthdayCounts == [][DaysToBirthdayCounts]_vars

=============================================================================
